---------------------------- MODULE Spec2Model ----------------------------
(***************************************************************************)
(* Model of src/src/http1_1.rs: the WebSocket opening handshake            *)
(* (RFC 6455) over an http_types request.                                  *)
(*                                                                         *)
(*   convert_key            Sec-WebSocket-Key -> Sec-WebSocket-Accept      *)
(*   assert_header          one exact-match header check                   *)
(*   check_request_headers  the validator: Result<HandshakeInfo, Error>    *)
(*   make_response          the 101 response for a HandshakeInfo           *)
(*                                                                         *)
(* A string is a sequence of one-character strings, so that split, trim,   *)
(* contains and as_bytes are computed character by character.  A byte is   *)
(* a number in 0..255.  A 32-bit word of SHA-1 is a pair <<hi, lo>> of     *)
(* 16-bit halves, every operation reduced modulo 2^16 per half.            *)
(***************************************************************************)
EXTENDS Integers, Sequences, FiniteSets, TLC

(***************************************************************************)
(* Characters and bytes.                                                   *)
(***************************************************************************)
\* The printable ASCII characters 0x20 .. 0x5F and 0x61 .. 0x7E, in code order.
AsciiUpper == <<" ", "!", "\"", "#", "$", "%", "&", "'", "(", ")", "*", "+", ",", "-", ".",
    "/", "0", "1", "2", "3", "4", "5", "6", "7", "8", "9", ":", ";", "<", "=", ">", "?", "@",
    "A", "B", "C", "D", "E", "F", "G", "H", "I", "J", "K", "L", "M", "N", "O", "P", "Q", "R",
    "S", "T", "U", "V", "W", "X", "Y", "Z", "[", "\\", "]", "^", "_">>
AsciiLower == <<"a", "b", "c", "d", "e", "f", "g", "h", "i", "j", "k", "l", "m", "n", "o", "p",
    "q", "r", "s", "t", "u", "v", "w", "x", "y", "z", "{", "|", "}", "~">>

\* The byte of an ASCII character (the header values of http_types are ASCII).
Ord(c) ==
    IF c = "\t" THEN 9 ELSE IF c = "\n" THEN 10 ELSE IF c = "\f" THEN 12 ELSE IF c = "\r" THEN 13
    ELSE IF \E i \in 1..Len(AsciiUpper) : AsciiUpper[i] = c
    THEN 31 + (CHOOSE i \in 1..Len(AsciiUpper) : AsciiUpper[i] = c)
    ELSE 96 + (CHOOSE i \in 1..Len(AsciiLower) : AsciiLower[i] = c)

\* str::as_bytes
as_bytes(s) == [i \in 1..Len(s) |-> Ord(s[i])]

(***************************************************************************)
(* SHA-1 (FIPS 180-4), the digest of the sha1 crate.                       *)
(* Only({e(a) : a \in {x}}) is e(x), with x evaluated once before it is   *)
(* used more than once; the loops over 80 rounds and 64 schedule words     *)
(* are split in halves, which keeps the evaluation depth logarithmic.      *)
(***************************************************************************)
Only(S) == CHOOSE r \in S : TRUE

RECURSIVE XorBits(_, _, _)
XorBits(a, b, n) ==
    IF n = 0 THEN 0 ELSE ((a + b) % 2) + 2 * XorBits(a \div 2, b \div 2, n - 1)

RECURSIVE AndBits(_, _, _)
AndBits(a, b, n) ==
    IF n = 0 THEN 0 ELSE ((a % 2) * (b % 2)) + 2 * AndBits(a \div 2, b \div 2, n - 1)

\* Bitwise tables on 4-bit digits.
Xor4 == [a \in 0..15 |-> [b \in 0..15 |-> XorBits(a, b, 4)]]
And4 == [a \in 0..15 |-> [b \in 0..15 |-> AndBits(a, b, 4)]]

Xor16(a, b) ==
    Xor4[a % 16][b % 16] + 16 * Xor4[(a \div 16) % 16][(b \div 16) % 16]
    + 256 * Xor4[(a \div 256) % 16][(b \div 256) % 16] + 4096 * Xor4[a \div 4096][b \div 4096]

And16(a, b) ==
    And4[a % 16][b % 16] + 16 * And4[(a \div 16) % 16][(b \div 16) % 16]
    + 256 * And4[(a \div 256) % 16][(b \div 256) % 16] + 4096 * And4[a \div 4096][b \div 4096]

\* Bitwise operations on words.
WXor(x, y) == Only({<<Xor16(a[1], b[1]), Xor16(a[2], b[2])>> : a \in {x}, b \in {y}})
WAnd(x, y) == Only({<<And16(a[1], b[1]), And16(a[2], b[2])>> : a \in {x}, b \in {y}})
WNot(x) == Only({<<65535 - a[1], 65535 - a[2]>> : a \in {x}})
Or16(a, b) == a + b - And16(a, b)
WOr(x, y) == Only({<<Or16(a[1], b[1]), Or16(a[2], b[2])>> : a \in {x}, b \in {y}})

RECURSIVE Pow2(_)
Pow2(n) == IF n = 0 THEN 1 ELSE 2 * Pow2(n - 1)

\* Rotate left by 0 < n < 16, and by any 0 < n < 32.
Rotl16(x, n) ==
    Only({<<((a[1] * Pow2(n)) % 65536) + (a[2] \div Pow2(16 - n)),
            ((a[2] * Pow2(n)) % 65536) + (a[1] \div Pow2(16 - n))>> : a \in {x}})
Rotl(x, n) ==
    IF n < 16 THEN Rotl16(x, n) ELSE Only({Rotl16(<<a[2], a[1]>>, n - 16) : a \in {x}})

\* Sums modulo 2^32.
Carry(hi, lo) == Only({<<(h + (l \div 65536)) % 65536, l % 65536>> : h \in {hi}, l \in {lo}})
WAdd(x, y) == Only({Carry(a[1] + b[1], a[2] + b[2]) : a \in {x}, b \in {y}})
WAdd5(a, b, c, d, e) == WAdd(WAdd(WAdd(WAdd(a, b), c), d), e)

\* Padding: 0x80, zeros up to 56 modulo 64, the bit length as 64 bits big-endian.
Zeros(n) == [i \in 1..n |-> 0]
BitLength(n) ==
    <<0, 0, 0, 0, (n \div 16777216) % 256, (n \div 65536) % 256, (n \div 256) % 256, n % 256>>
Pad(msg) ==
    msg \o <<128>> \o Zeros((119 - (Len(msg) % 64)) % 64) \o BitLength(8 * Len(msg))

WordAt(m, i) == <<m[i] * 256 + m[i + 1], m[i + 2] * 256 + m[i + 3]>>
Block(m, k) == [t \in 1..16 |-> WordAt(m, 64 * k + 4 * (t - 1) + 1)]

\* The message schedule: W[t] = ROTL1(W[t-3] ^ W[t-8] ^ W[t-14] ^ W[t-16]).
ScheduleWord(w) ==
    LET t == Len(w) + 1
    IN Rotl(WXor(WXor(WXor(w[t - 3], w[t - 8]), w[t - 14]), w[t - 16]), 1)

RECURSIVE ExtendTo(_, _)
ExtendTo(w, n) ==
    IF Len(w) >= n THEN w
    ELSE IF n - Len(w) = 1 THEN Append(w, ScheduleWord(w))
    ELSE Only({ExtendTo(m, n) : m \in {ExtendTo(w, (Len(w) + n) \div 2)}})

Schedule(blk) == Only({ExtendTo(b, 80) : b \in {blk}})

\* Ch, Parity, Maj, Parity and the four round constants.
F(t, b, c, d) ==
    IF t < 20 THEN WOr(WAnd(b, c), WAnd(WNot(b), d))
    ELSE IF t < 40 THEN WXor(WXor(b, c), d)
    ELSE IF t < 60 THEN WOr(WOr(WAnd(b, c), WAnd(b, d)), WAnd(c, d))
    ELSE WXor(WXor(b, c), d)

\* 0x5A827999, 0x6ED9EBA1, 0x8F1BBCDC, 0xCA62C1D6
K(t) ==
    IF t < 20 THEN <<23170, 31129>>
    ELSE IF t < 40 THEN <<28377, 60321>>
    ELSE IF t < 60 THEN <<36635, 48348>>
    ELSE <<51810, 49622>>

Round(w, s, t) ==
    <<WAdd5(Rotl(s[1], 5), F(t, s[2], s[3], s[4]), s[5], w[t + 1], K(t)),
      s[1], Rotl(s[2], 30), s[3], s[4]>>

\* Rounds lo .. hi-1 applied to the working state s.
RECURSIVE Rounds(_, _, _, _)
Rounds(w, s, lo, hi) ==
    IF hi - lo = 1 THEN Round(w, s, lo)
    ELSE Only({Rounds(w, m, (lo + hi) \div 2, hi) : m \in {Rounds(w, s, lo, (lo + hi) \div 2)}})

Compress(h, blk) ==
    Only({<<WAdd(h[1], s[1]), WAdd(h[2], s[2]), WAdd(h[3], s[3]), WAdd(h[4], s[4]),
            WAdd(h[5], s[5])>> : s \in {Rounds(w, h, 0, 80) : w \in {Schedule(blk)}}})

RECURSIVE Blocks(_, _, _)
Blocks(m, h, k) ==
    IF 64 * k >= Len(m) THEN h
    ELSE Only({Blocks(m, n, k + 1) : n \in {Compress(h, Block(m, k))}})

\* 0x67452301, 0xEFCDAB89, 0x98BADCFE, 0x10325476, 0xC3D2E1F0
H0 == <<<<26437, 8961>>, <<61389, 43913>>, <<39098, 56574>>, <<4146, 21622>>, <<50130, 57840>>>>

WBytes(x) == <<x[1] \div 256, x[1] % 256, x[2] \div 256, x[2] % 256>>

\* The 20-byte digest of a byte sequence.
Sha1Digest(msg) ==
    Only({WBytes(h[1]) \o WBytes(h[2]) \o WBytes(h[3]) \o WBytes(h[4]) \o WBytes(h[5]) :
             h \in {Blocks(m, H0, 0) : m \in {Pad(msg)}}})

\* The hasher of the sha1 crate, as the bytes it has absorbed.
Sha1_default == <<>>
Sha1_input(hasher, data) == hasher \o data
Sha1_result(hasher) == Sha1Digest(hasher)

(***************************************************************************)
(* base64::encode: the standard alphabet (RFC 4648), with padding.         *)
(***************************************************************************)
Base64Alphabet == <<"A", "B", "C", "D", "E", "F", "G", "H", "I", "J", "K", "L", "M", "N", "O",
    "P", "Q", "R", "S", "T", "U", "V", "W", "X", "Y", "Z", "a", "b", "c", "d", "e", "f", "g",
    "h", "i", "j", "k", "l", "m", "n", "o", "p", "q", "r", "s", "t", "u", "v", "w", "x", "y",
    "z", "0", "1", "2", "3", "4", "5", "6", "7", "8", "9", "+", "/">>

Base64Char(n) == Base64Alphabet[n + 1]

\* One group of 3, 2 or 1 bytes, as 4 characters.
Base64Group(g) ==
    IF Len(g) = 3
    THEN <<Base64Char(g[1] \div 4), Base64Char((g[1] % 4) * 16 + (g[2] \div 16)),
           Base64Char((g[2] % 16) * 4 + (g[3] \div 64)), Base64Char(g[3] % 64)>>
    ELSE IF Len(g) = 2
    THEN <<Base64Char(g[1] \div 4), Base64Char((g[1] % 4) * 16 + (g[2] \div 16)),
           Base64Char((g[2] % 16) * 4), "=">>
    ELSE <<Base64Char(g[1] \div 4), Base64Char((g[1] % 4) * 16), "=", "=">>

RECURSIVE Base64From(_, _)
Base64From(bytes, k) ==
    IF 3 * k >= Len(bytes) THEN <<>>
    ELSE Base64Group(SubSeq(bytes, 3 * k + 1,
                            IF 3 * k + 3 <= Len(bytes) THEN 3 * k + 3 ELSE Len(bytes)))
         \o Base64From(bytes, k + 1)

base64_encode(bytes) == Only({Base64From(b, 0) : b \in {bytes}})

(***************************************************************************)
(* convert_key                                                             *)
(***************************************************************************)
WS_GUID == as_bytes(<<"2", "5", "8", "E", "A", "F", "A", "5", "-", "E", "9", "1", "4", "-", "4",
    "7", "D", "A", "-", "9", "5", "C", "A", "-", "C", "5", "A", "B", "0", "D", "C", "8", "5",
    "B", "1", "1">>)

\* Variant: the GUID is absorbed before the key.
convert_key_guid_first(input) ==
    base64_encode(Sha1_result(Sha1_input(Sha1_input(Sha1_default, WS_GUID), input)))

convert_key(input) ==
    base64_encode(Sha1_result(Sha1_input(Sha1_input(Sha1_default, input), WS_GUID)))

(***************************************************************************)
(* Option and Result.                                                      *)
(***************************************************************************)
None == <<>>
Some(v) == <<v>>
Ok(v) == <<"Ok", v>>
Err(e) == <<"Err", e>>
IsOk(r) == r[1] = "Ok"
IsErr(r) == r[1] = "Err"

(***************************************************************************)
(* The header store of http_types: a request maps every header name to the *)
(* values received under it, in the order received; a name without values  *)
(* is absent.  Names are compared without case by http_types, so a name    *)
(* stands for all its spellings.                                           *)
(***************************************************************************)
HeaderNames ==
    {"Connection", "Upgrade", "Sec-WebSocket-Version", "Sec-WebSocket-Key",
     "Sec-WebSocket-Extensions", "Sec-WebSocket-Protocol"}

\* Request::header: Option<&HeaderValues>
Request_header(request, name) ==
    IF Len(request[name]) = 0 THEN None ELSE Some(request[name])

\* HeaderValues::last and HeaderValues::get (0-based)
HeaderValues_last(values) == values[Len(values)]
HeaderValues_get(values, i) == IF i < Len(values) THEN Some(values[i + 1]) ELSE None

(***************************************************************************)
(* str::contains, str::split and str::trim, on one-character patterns.     *)
(***************************************************************************)
\* char::is_whitespace on ASCII (0x0B has no TLA+ spelling and is not drawn).
WhiteSpace == {" ", "\t", "\n", "\f", "\r"}

contains(s, c) == \E i \in 1..Len(s) : s[i] = c

\* str::find: the position of the first occurrence
find(s, c) == CHOOSE i \in 1..Len(s) : s[i] = c /\ \A j \in 1..(i - 1) : s[j] # c

\* Variant: empty tokens are dropped.
RECURSIVE split_nonempty(_, _)
split_nonempty(s, c) ==
    IF ~contains(s, c) THEN (IF Len(s) = 0 THEN <<>> ELSE <<s>>)
    ELSE (IF find(s, c) = 1 THEN <<>> ELSE <<SubSeq(s, 1, find(s, c) - 1)>>)
         \o split_nonempty(SubSeq(s, find(s, c) + 1, Len(s)), c)

RECURSIVE split(_, _)
split(s, c) ==
    IF ~contains(s, c) THEN <<s>>
    ELSE <<SubSeq(s, 1, find(s, c) - 1)>> \o split(SubSeq(s, find(s, c) + 1, Len(s)), c)

RECURSIVE trim_start(_)
trim_start(s) == IF Len(s) > 0 /\ s[1] \in WhiteSpace THEN trim_start(Tail(s)) ELSE s

RECURSIVE trim_end(_)
trim_end(s) ==
    IF Len(s) > 0 /\ s[Len(s)] \in WhiteSpace THEN trim_end(SubSeq(s, 1, Len(s) - 1)) ELSE s

trim(s) == trim_end(trim_start(s))

(***************************************************************************)
(* HandshakeError and HandshakeInfo.                                       *)
(***************************************************************************)
MissingHeader(header) == [kind |-> "MissingHeader", header |-> header]

InvalidHeaderValue(header, expected, found) ==
    [kind |-> "InvalidHeaderValue", header |-> header, expected |-> expected, found |-> found]

HandshakeInfo(key, extensions, protocols) ==
    [key |-> key, extensions |-> extensions, protocols |-> protocols]

S_Upgrade == <<"U", "p", "g", "r", "a", "d", "e">>
S_websocket == <<"w", "e", "b", "s", "o", "c", "k", "e", "t">>
S_13 == <<"1", "3">>

(***************************************************************************)
(* assert_header                                                           *)
(***************************************************************************)
\* Variant: compares the first value received instead of the last.
assert_header_first(req, header, expected) ==
    IF Request_header(req, header) = None THEN Err(MissingHeader(header))
    ELSE LET value == Request_header(req, header)[1][1]
         IN IF value # expected
            THEN Err(InvalidHeaderValue(header, Some(expected), value))
            ELSE Ok(<<>>)

\* Variant: an absent header passes the check.
assert_header_lenient(req, header, expected) ==
    IF Request_header(req, header) = None THEN Ok(<<>>)
    ELSE LET value == HeaderValues_last(Request_header(req, header)[1])
         IN IF value # expected
            THEN Err(InvalidHeaderValue(header, Some(expected), value))
            ELSE Ok(<<>>)

assert_header(req, header, expected) ==
    IF Request_header(req, header) = None THEN Err(MissingHeader(header))
    ELSE LET value == HeaderValues_last(Request_header(req, header)[1])
         IN IF value # expected
            THEN Err(InvalidHeaderValue(header, Some(expected), value))
            ELSE Ok(<<>>)

(***************************************************************************)
(* check_request_headers                                                   *)
(***************************************************************************)
\* Variant: tokens with parameters are kept.
ExtensionTokens_unfiltered(value) ==
    LET tokens == split(value, ",")
    IN [k \in 1..Len(tokens) |-> trim(tokens[k])]

\* for ext_string in value.split(","): skip the ones with ";", trim, push
ExtensionTokens(value) ==
    LET kept == SelectSeq(split(value, ","), LAMBDA ext_string : ~contains(ext_string, ";"))
    IN [k \in 1..Len(kept) |-> trim(kept[k])]

\* while let Some(value) = values.get(i) { ...; i += 1 }
RECURSIVE ExtensionsLoop(_, _, _)
ExtensionsLoop(values, i, extensions) ==
    IF HeaderValues_get(values, i) = None THEN extensions
    ELSE ExtensionsLoop(values, i + 1,
                        extensions \o ExtensionTokens(HeaderValues_get(values, i)[1]))

\* Variant: an absent header is parsed as one empty value.
ParseExtensions_absent_as_empty(request) ==
    IF Request_header(request, "Sec-WebSocket-Extensions") = None
    THEN ExtensionsLoop(<<<<>>>>, 0, <<>>)
    ELSE ExtensionsLoop(Request_header(request, "Sec-WebSocket-Extensions")[1], 0, <<>>)

ParseExtensions(request) ==
    IF Request_header(request, "Sec-WebSocket-Extensions") = None THEN <<>>
    ELSE ExtensionsLoop(Request_header(request, "Sec-WebSocket-Extensions")[1], 0, <<>>)

\* Variant: tokens with parameters are dropped, as for the extensions.
ProtocolTokens_filtered(value) ==
    LET kept == SelectSeq(split(value, ","), LAMBDA proto_string : ~contains(proto_string, ";"))
    IN [k \in 1..Len(kept) |-> trim(kept[k])]

\* for proto_string in value.split(","): push the trimmed token
ProtocolTokens(value) ==
    LET tokens == split(value, ",")
    IN [k \in 1..Len(tokens) |-> trim(tokens[k])]

RECURSIVE ProtocolsLoop(_, _, _)
ProtocolsLoop(values, i, protocols) ==
    IF HeaderValues_get(values, i) = None THEN protocols
    ELSE ProtocolsLoop(values, i + 1,
                       protocols \o ProtocolTokens(HeaderValues_get(values, i)[1]))

ParseProtocols(request) ==
    IF Request_header(request, "Sec-WebSocket-Protocol") = None THEN <<>>
    ELSE ProtocolsLoop(Request_header(request, "Sec-WebSocket-Protocol")[1], 0, <<>>)

\* Variant: the key is the first value received.
KeyLookup_first(request) ==
    IF Request_header(request, "Sec-WebSocket-Key") = None
    THEN Err(MissingHeader("Sec-WebSocket-Key"))
    ELSE Ok(Request_header(request, "Sec-WebSocket-Key")[1][1])

\* The key lookup: the last value of Sec-WebSocket-Key, or MissingHeader.
KeyLookup(request) ==
    IF Request_header(request, "Sec-WebSocket-Key") = None
    THEN Err(MissingHeader("Sec-WebSocket-Key"))
    ELSE Ok(HeaderValues_last(Request_header(request, "Sec-WebSocket-Key")[1]))

\* Variant: Upgrade is checked before Connection.
check_request_headers_reordered(request) ==
    IF IsErr(assert_header(request, "Upgrade", S_websocket))
    THEN assert_header(request, "Upgrade", S_websocket)
    ELSE IF IsErr(assert_header(request, "Connection", S_Upgrade))
    THEN assert_header(request, "Connection", S_Upgrade)
    ELSE IF IsErr(assert_header(request, "Sec-WebSocket-Version", S_13))
    THEN assert_header(request, "Sec-WebSocket-Version", S_13)
    ELSE IF IsErr(KeyLookup(request))
    THEN KeyLookup(request)
    ELSE Ok(HandshakeInfo(KeyLookup(request)[2], ParseExtensions(request),
                          ParseProtocols(request)))

\* Each `?` returns the error of its check at once.
check_request_headers(request) ==
    IF IsErr(assert_header(request, "Connection", S_Upgrade))
    THEN assert_header(request, "Connection", S_Upgrade)
    ELSE IF IsErr(assert_header(request, "Upgrade", S_websocket))
    THEN assert_header(request, "Upgrade", S_websocket)
    ELSE IF IsErr(assert_header(request, "Sec-WebSocket-Version", S_13))
    THEN assert_header(request, "Sec-WebSocket-Version", S_13)
    ELSE IF IsErr(KeyLookup(request))
    THEN KeyLookup(request)
    ELSE Ok(HandshakeInfo(KeyLookup(request)[2], ParseExtensions(request),
                          ParseProtocols(request)))

(***************************************************************************)
(* make_response                                                           *)
(***************************************************************************)
\* StatusCode::SwitchingProtocols
SwitchingProtocols == 101

\* Response::new: the status and no header.  Response::insert_header
\* replaces the values held under the name.
Response_new(status) == [status |-> status, headers |-> [n \in {} |-> <<>>]]

Response_insert_header(res, name, value) ==
    [res EXCEPT !.headers = [n \in (DOMAIN res.headers) \cup {name} |->
                                IF n = name THEN <<value>> ELSE res.headers[n]]]

\* The keys the requests of the model carry: the key of RFC 6455 section 1.3,
\* and the empty string.
RfcKey == <<"d", "G", "h", "l", "I", "H", "N", "h", "b", "X", "B", "s", "Z", "S", "B", "u", "b",
    "2", "5", "j", "Z", "Q", "=", "=">>
EmptyKey == <<>>
KeyValues == {RfcKey, EmptyKey}

\* convert_key(self.key.as_bytes()), tabulated over KeyValues.
Accept == [key \in KeyValues |-> convert_key(as_bytes(key))]

\* Variant: the accept header echoes the key instead of its digest.
make_response_echo(self) ==
    Response_insert_header(
        Response_insert_header(
            Response_insert_header(Response_new(SwitchingProtocols), "Upgrade", S_websocket),
            "Connection", S_Upgrade),
        "Sec-WebSocket-Accept", self.key)

make_response(self) ==
    Response_insert_header(
        Response_insert_header(
            Response_insert_header(Response_new(SwitchingProtocols), "Upgrade", S_websocket),
            "Connection", S_Upgrade),
        "Sec-WebSocket-Accept", Accept[self.key])

(***************************************************************************)
(* The state: one httpRequest with the checked of its validation and the        *)
(* httpResponse built from it, and one byte string with the results of the     *)
(* calls of convert_key on it.                                             *)
(***************************************************************************)
VARIABLES httpRequest, checked, httpResponse, keyBytes, accepts

vars == <<httpRequest, checked, httpResponse, keyBytes, accepts>>

\* Bounds.
MaxValues == 2
MaxValueLen == 2
MaxKeyLen == 3
MaxCalls == 2

SeqsUpTo(S, n) == UNION {[1..k -> S] : k \in 0..n}

MakeRequest(connection, upgrade, version, key, extensions, protocols) ==
    [name \in HeaderNames |->
        IF name = "Connection" THEN connection
        ELSE IF name = "Upgrade" THEN upgrade
        ELSE IF name = "Sec-WebSocket-Version" THEN version
        ELSE IF name = "Sec-WebSocket-Key" THEN key
        ELSE IF name = "Sec-WebSocket-Extensions" THEN extensions
        ELSE protocols]

S_keep_alive == <<"k", "e", "e", "p", "-", "a", "l", "i", "v", "e">>
S_WebSocket == <<"W", "e", "b", "S", "o", "c", "k", "e", "t">>
S_8 == <<"8">>
ExtensionsExample == <<"p", "e", "r", "m", "e", "s", "s", "a", "g", "e", "-", "d", "e", "f",
    "l", "a", "t", "e", ";", " ", "c", "l", "i", "e", "n", "t", "_", "m", "a", "x", "_", "w",
    "i", "n", "d", "o", "w", "_", "b", "i", "t", "s", ",", " ", "f", "o", "o">>
ProtocolExample == <<"c", "h", "a", "t", ",", " ", "s", "u", "p", "e", "r", "c", "h", "a", "t">>

\* Header values for the negotiation headers: the examples, empty and blank
\* tokens, a parameter, and every string of at most MaxValueLen characters
\* over a letter, the two separators and a blank.
SampleValues ==
    {ExtensionsExample, ProtocolExample, <<"a", ",", ",", "b">>, <<>>,
     <<" ", "x", ";", "q", " ", ",", "\t", "y", " ">>}
TokenAlphabet == {"a", ",", ";", " "}
ShortValues == SeqsUpTo(TokenAlphabet, MaxValueLen)

\* Every header, absent or with up to MaxValues values; each exact-match
\* header draws from the expected value and one other.
InitHeaders ==
    \E connection \in SeqsUpTo({S_Upgrade, S_keep_alive}, MaxValues),
       upgrade \in SeqsUpTo({S_websocket, S_WebSocket}, MaxValues),
       version \in SeqsUpTo({S_13, S_8}, MaxValues),
       key \in SeqsUpTo(KeyValues, MaxValues),
       optional \in {<<<<>>, <<>>>>, <<<<ExtensionsExample>>, <<ProtocolExample>>>>} :
        httpRequest = MakeRequest(connection, upgrade, version, key, optional[1], optional[2])

\* The mandatory headers of three requests (two valid, one not), with the
\* negotiation headers varied.
MandatorySamples ==
    {<<<<S_Upgrade>>, <<S_websocket>>, <<S_13>>, <<RfcKey>>>>,
     <<<<S_keep_alive, S_Upgrade>>, <<S_websocket>>, <<S_13>>, <<RfcKey, EmptyKey>>>>,
     <<<<S_Upgrade>>, <<S_websocket>>, <<S_8>>, <<RfcKey>>>>}

InitTokens ==
    \E m \in MandatorySamples :
        \/ \E extensions \in SeqsUpTo(SampleValues, MaxValues),
              protocols \in SeqsUpTo(SampleValues, MaxValues) :
                httpRequest = MakeRequest(m[1], m[2], m[3], m[4], extensions, protocols)
        \/ \E value \in ShortValues, other \in {<<>>, <<ProtocolExample>>} :
                \/ httpRequest = MakeRequest(m[1], m[2], m[3], m[4], <<value>>, other)
                \/ httpRequest = MakeRequest(m[1], m[2], m[3], m[4], other, <<value>>)

NoRequest == MakeRequest(<<>>, <<>>, <<>>, <<>>, <<>>, <<>>)

\* Inputs of convert_key: every byte string of at most MaxKeyLen bytes over
\* three bytes, and the bytes of the RFC key.
KeyBytes == {0, 97, 255}
KeyInputs == SeqsUpTo(KeyBytes, MaxKeyLen) \cup {as_bytes(RfcKey)}

Init ==
    /\ InitHeaders
    /\ checked = None
    /\ httpResponse = None
    /\ keyBytes = <<>>
    /\ accepts = <<>>

InitOptional ==
    /\ InitTokens
    /\ checked = None
    /\ httpResponse = None
    /\ keyBytes = <<>>
    /\ accepts = <<>>

InitKey ==
    /\ httpRequest = NoRequest
    /\ checked = None
    /\ httpResponse = None
    /\ keyBytes \in KeyInputs
    /\ accepts = <<>>

\* let checked = check_request_headers(&request);
CheckRequestHeaders ==
    /\ checked = None
    /\ checked' = Some(check_request_headers(httpRequest))
    /\ UNCHANGED <<httpRequest, httpResponse, keyBytes, accepts>>

\* let res = info.make_response();   (only an Ok result holds a HandshakeInfo)
MakeResponse ==
    /\ checked # None
    /\ IsOk(checked[1])
    /\ httpResponse = None
    /\ httpResponse' = Some(make_response(checked[1][2]))
    /\ UNCHANGED <<httpRequest, checked, keyBytes, accepts>>

\* let accept = convert_key(input);
ConvertKey ==
    /\ Len(accepts) < MaxCalls
    /\ accepts' = Append(accepts, convert_key(keyBytes))
    /\ UNCHANGED <<httpRequest, checked, httpResponse, keyBytes>>

Next == CheckRequestHeaders \/ MakeResponse

NextKey == ConvertKey

Spec == Init /\ [][Next]_vars

SpecOptional == InitOptional /\ [][Next]_vars

SpecKey == InitKey /\ [][NextKey]_vars

(***************************************************************************)
(* Vocabulary of the properties, restated from the specification and not  *)
(* from the definitions above.                                             *)
(***************************************************************************)
Checked == checked # None
Outcome == checked[1]
Succeeded == Checked /\ Outcome[1] = "Ok"
Failed == Checked /\ Outcome[1] = "Err"
Info == Outcome[2]

Present(h) == Len(httpRequest[h]) >= 1
LastValue(h) == httpRequest[h][Len(httpRequest[h])]

CheckOrder == <<"Connection", "Upgrade", "Sec-WebSocket-Version", "Sec-WebSocket-Key">>
ExactMatch == {"Connection", "Upgrade", "Sec-WebSocket-Version"}

ExpectedValue(h) ==
    IF h = "Connection" THEN <<"U", "p", "g", "r", "a", "d", "e">>
    ELSE IF h = "Upgrade" THEN <<"w", "e", "b", "s", "o", "c", "k", "e", "t">>
    ELSE <<"1", "3">>

\* The check of header h fails: h is absent, or h is an exact-match header
\* whose last value is not the expected one.
Fails(h) == ~Present(h) \/ (h \in ExactMatch /\ LastValue(h) # ExpectedValue(h))

\* The error the check of a failing header h reports.
ErrorOf(h) ==
    IF ~Present(h) THEN [kind |-> "MissingHeader", header |-> h]
    ELSE [kind |-> "InvalidHeaderValue", header |-> h,
          expected |-> <<ExpectedValue(h)>>, found |-> LastValue(h)]

EarlierPass(i) == \A j \in 1..(i - 1) : ~Fails(CheckOrder[j])
MandatoryPass == \A i \in 1..4 : ~Fails(CheckOrder[i])

KeepAlive == <<"k", "e", "e", "p", "-", "a", "l", "i", "v", "e">>
Foo == <<"f", "o", "o">>
Chat == <<"c", "h", "a", "t">>
Superchat == <<"s", "u", "p", "e", "r", "c", "h", "a", "t">>
RfcAccept == <<"s", "3", "p", "P", "L", "M", "B", "i", "T", "x", "a", "Q", "9", "k", "Y", "G",
    "z", "z", "h", "Z", "R", "b", "K", "+", "x", "O", "o", "=">>
RfcGuid == <<"2", "5", "8", "E", "A", "F", "A", "5", "-", "E", "9", "1", "4", "-", "4", "7",
    "D", "A", "-", "9", "5", "C", "A", "-", "C", "5", "A", "B", "0", "D", "C", "8", "5", "B",
    "1", "1">>

\* The comma-separated segments of a header value, by position: a segment
\* starts after position 0 or after a comma and runs to the next comma or
\* to the end.
Commas(v) == {i \in 1..Len(v) : v[i] = ","}
Nth(S, k) == CHOOSE x \in S : Cardinality({y \in S : y < x}) = k - 1
SegmentAfter(v, b) ==
    SubSeq(v, b + 1, Nth({c \in Commas(v) \cup {Len(v) + 1} : c > b}, 1) - 1)
Segments(v) ==
    [k \in 1..(Cardinality(Commas(v)) + 1) |-> SegmentAfter(v, Nth(Commas(v) \cup {0}, k))]

\* A token without the white space around it.
Blank == {" ", "\t", "\n", "\f", "\r"}
Inked(t) == {i \in 1..Len(t) : t[i] \notin Blank}
Stripped(t) ==
    IF Inked(t) = {} THEN <<>>
    ELSE SubSeq(t, Nth(Inked(t), 1), Nth(Inked(t), Cardinality(Inked(t))))

HasParameter(t) == \E i \in 1..Len(t) : t[i] = ";"
Plain(v) == {k \in 1..Len(Segments(v)) : ~HasParameter(Segments(v)[k])}

ExtensionsOfValue(v) ==
    [j \in 1..Cardinality(Plain(v)) |-> Stripped(Segments(v)[Nth(Plain(v), j)])]
ProtocolsOfValue(v) == [k \in 1..Len(Segments(v)) |-> Stripped(Segments(v)[k])]

RECURSIVE Flatten(_)
Flatten(lists) == IF Len(lists) = 0 THEN <<>> ELSE Head(lists) \o Flatten(Tail(lists))

ExpectedExtensions ==
    Flatten([i \in 1..Len(httpRequest["Sec-WebSocket-Extensions"]) |->
                ExtensionsOfValue(httpRequest["Sec-WebSocket-Extensions"][i])])
ExpectedProtocols ==
    Flatten([i \in 1..Len(httpRequest["Sec-WebSocket-Protocol"]) |->
                ProtocolsOfValue(httpRequest["Sec-WebSocket-Protocol"][i])])

RECURSIVE Sum(_)
Sum(numbers) == IF Len(numbers) = 0 THEN 0 ELSE Head(numbers) + Sum(Tail(numbers))

(***************************************************************************)
(* The validator: the mandatory checks.                                    *)
(***************************************************************************)
\* C1: the four checks run in the order Connection, Upgrade,
\* Sec-WebSocket-Version, Sec-WebSocket-Key and stop at the first failure:
\* a request that fails some check is rejected with the error of the
\* earliest failing check, which the values of that one header determine.
C1_FirstFailureWins ==
    Checked => \A i \in 1..4 :
        (Fails(CheckOrder[i]) /\ EarlierPass(i))
            => (Outcome[1] = "Err" /\ Outcome[2] = ErrorOf(CheckOrder[i]))

\* C1 witness: Connection and Upgrade are both absent; Connection is reported.
C1_Witness ==
    /\ Failed
    /\ ~Present("Connection")
    /\ ~Present("Upgrade")
    /\ Outcome[2] = [kind |-> "MissingHeader", header |-> "Connection"]

\* C2, as stated: whenever a mandatory header H is absent the request is
\* rejected with Missing-Header(H), whatever the other three headers hold.
C2_MissingAlwaysReported ==
    Checked => \A i \in 1..4 :
        ~Present(CheckOrder[i])
            => (Outcome[1] = "Err"
                /\ Outcome[2] = [kind |-> "MissingHeader", header |-> CheckOrder[i]])

\* C2, amended: a request in which a mandatory header H is absent is always
\* rejected; the error is Missing-Header(H) when every check before H
\* passes, whatever the headers checked after H hold.
C2_MissingReportedInOrder ==
    Checked => \A i \in 1..4 :
        ~Present(CheckOrder[i])
            => /\ Outcome[1] = "Err"
               /\ EarlierPass(i)
                    => Outcome[2] = [kind |-> "MissingHeader", header |-> CheckOrder[i]]

\* C2 witness: Upgrade is absent after a passing Connection, the version
\* after it is wrong and the key is absent; Missing-Header(Upgrade).
C2_Witness ==
    /\ Failed
    /\ ~Fails("Connection")
    /\ ~Present("Upgrade")
    /\ Present("Sec-WebSocket-Version") /\ Fails("Sec-WebSocket-Version")
    /\ ~Present("Sec-WebSocket-Key")
    /\ Outcome[2] = [kind |-> "MissingHeader", header |-> "Upgrade"]

\* C3: an exact-match header is judged by its last value alone, compared
\* character for character: the check passes when the last value is the
\* expected one and otherwise fails with Invalid-Header-Value(header,
\* expected, found = the last value), which is the outcome of the
\* validation when the earlier checks pass.
C3_LastValueExactMatch ==
    Checked => \A i \in 1..3 :
        LET h == CheckOrder[i]
            invalid == [kind |-> "InvalidHeaderValue", header |-> h,
                        expected |-> <<ExpectedValue(h)>>, found |-> LastValue(h)]
        IN Present(h) =>
            /\ (LastValue(h) = ExpectedValue(h))
                 => assert_header(httpRequest, h, ExpectedValue(h))[1] = "Ok"
            /\ (LastValue(h) # ExpectedValue(h))
                 => /\ assert_header(httpRequest, h, ExpectedValue(h)) = <<"Err", invalid>>
                    /\ EarlierPass(i) => (Outcome[1] = "Err" /\ Outcome[2] = invalid)

\* C3 witness: Connection received "Upgrade" and then "keep-alive".
C3_Witness ==
    /\ Failed
    /\ httpRequest["Connection"] = <<ExpectedValue("Connection"), KeepAlive>>
    /\ Outcome[2] = [kind |-> "InvalidHeaderValue", header |-> "Connection",
                     expected |-> <<ExpectedValue("Connection")>>, found |-> KeepAlive]

\* C4: when the three exact-match checks pass and Sec-WebSocket-Key is
\* present, the validation succeeds and the key of the descriptor is the
\* last value of Sec-WebSocket-Key, whatever it is (the empty string too).
C4_KeyIsLastValue ==
    (Checked /\ EarlierPass(4) /\ Present("Sec-WebSocket-Key"))
        => (Outcome[1] = "Ok" /\ Info.key = LastValue("Sec-WebSocket-Key"))

\* C4 witness: the key header holds a non-empty value and then the empty one.
C4_Witness ==
    /\ Succeeded
    /\ Len(httpRequest["Sec-WebSocket-Key"]) = 2
    /\ Len(httpRequest["Sec-WebSocket-Key"][1]) > 0
    /\ Len(httpRequest["Sec-WebSocket-Key"][2]) = 0
    /\ Info.key = <<>>

(***************************************************************************)
(* The response.                                                           *)
(***************************************************************************)
\* convert_key on the bytes of every key a request may carry.
AcceptOfKey == [k \in KeyValues |-> convert_key(as_bytes(k))]

\* C7: a descriptor of a successful validation always has a response, and
\* the response has status 101 and exactly the headers Upgrade: websocket,
\* Connection: Upgrade and Sec-WebSocket-Accept: convert_key of the bytes
\* of the last Sec-WebSocket-Key value of the request.
C7_Response ==
    /\ (Succeeded /\ httpResponse = None) => ENABLED MakeResponse
    /\ httpResponse # None =>
        /\ Succeeded
        /\ httpResponse[1].status = 101
        /\ DOMAIN httpResponse[1].headers = {"Upgrade", "Connection", "Sec-WebSocket-Accept"}
        /\ httpResponse[1].headers["Upgrade"] = <<ExpectedValue("Upgrade")>>
        /\ httpResponse[1].headers["Connection"] = <<ExpectedValue("Connection")>>
        /\ httpResponse[1].headers["Sec-WebSocket-Accept"]
             = <<AcceptOfKey[LastValue("Sec-WebSocket-Key")]>>

\* C7 witness: the key header holds the empty value and then the RFC key;
\* the response carries the accept token of the RFC key.
C7_Witness ==
    /\ httpResponse # None
    /\ Len(httpRequest["Sec-WebSocket-Key"]) = 2
    /\ httpRequest["Sec-WebSocket-Key"][1] = <<>>
    /\ httpResponse[1].status = 101
    /\ httpResponse[1].headers["Sec-WebSocket-Accept"] = <<RfcAccept>>

(***************************************************************************)
(* The validator: the negotiation headers.                                 *)
(***************************************************************************)
\* C5: on success the extensions are the values of
\* Sec-WebSocket-Extensions in the order received, each cut at its commas
\* from left to right, the segments holding a ';' left out, the others
\* stripped of surrounding white space; nothing is reordered or
\* deduplicated.  The value "permessage-deflate; client_max_window_bits,
\* foo" gives ["foo"].
C5_Extensions ==
    Succeeded =>
        /\ Info.extensions = ExpectedExtensions
        /\ httpRequest["Sec-WebSocket-Extensions"] = <<ExtensionsExample>>
             => Info.extensions = <<Foo>>

\* C5 witness: the example value, received alone.
C5_Witness ==
    /\ Succeeded
    /\ httpRequest["Sec-WebSocket-Extensions"] = <<ExtensionsExample>>
    /\ Info.extensions = <<Foo>>

\* C6: on success the protocols are the values of Sec-WebSocket-Protocol in
\* the order received, each cut at its commas from left to right, every
\* segment stripped of surrounding white space and kept, with a ';' or
\* without.  The value "chat, superchat" gives ["chat", "superchat"].
C6_Protocols ==
    Succeeded =>
        /\ Info.protocols = ExpectedProtocols
        /\ httpRequest["Sec-WebSocket-Protocol"] = <<ProtocolExample>>
             => Info.protocols = <<Chat, Superchat>>

\* C6 witness: a value with a parameter and then the example value.
C6_Witness ==
    /\ Succeeded
    /\ Len(httpRequest["Sec-WebSocket-Protocol"]) = 2
    /\ HasParameter(httpRequest["Sec-WebSocket-Protocol"][1])
    /\ httpRequest["Sec-WebSocket-Protocol"][2] = ProtocolExample
    /\ Len(Info.protocols) = 4
    /\ HasParameter(Info.protocols[1])
    /\ SubSeq(Info.protocols, 3, 4) = <<Chat, Superchat>>

\* C9: a request that passes the four mandatory checks is accepted whatever
\* the negotiation headers hold, and an absent negotiation header gives an
\* empty list.
C9_OptionalNeverFails ==
    (Checked /\ MandatoryPass) =>
        /\ Outcome[1] = "Ok"
        /\ ~Present("Sec-WebSocket-Extensions") => Info.extensions = <<>>
        /\ ~Present("Sec-WebSocket-Protocol") => Info.protocols = <<>>

\* C9 witness: no extensions header, and a protocol header that is made of
\* separators only.
C9_Witness ==
    /\ Succeeded
    /\ ~Present("Sec-WebSocket-Extensions")
    /\ httpRequest["Sec-WebSocket-Protocol"] = <<<<";", ",">>>>
    /\ Info.extensions = <<>>
    /\ Len(Info.protocols) = 2

\* C10: empty and blank tokens are kept.  The protocols hold one entry per
\* comma plus one for every value, so at least one when the header is
\* present; the extensions hold one entry per segment without ';'.  An
\* empty value gives one empty token and "a,,b" gives ["a", "", "b"].
C10_EmptyTokensKept ==
    Succeeded =>
        LET exts == httpRequest["Sec-WebSocket-Extensions"]
            protos == httpRequest["Sec-WebSocket-Protocol"]
        IN /\ Len(Info.protocols)
                = Sum([i \in 1..Len(protos) |-> Cardinality(Commas(protos[i])) + 1])
           /\ Present("Sec-WebSocket-Protocol") => Len(Info.protocols) >= 1
           /\ Len(Info.extensions) = Sum([i \in 1..Len(exts) |-> Cardinality(Plain(exts[i]))])
           /\ protos = <<<<>>>> => Info.protocols = <<<<>>>>
           /\ exts = <<<<>>>> => Info.extensions = <<<<>>>>
           /\ protos = <<<<"a", ",", ",", "b">>>> => Info.protocols = <<<<"a">>, <<>>, <<"b">>>>
           /\ exts = <<<<"a", ",", ",", "b">>>> => Info.extensions = <<<<"a">>, <<>>, <<"b">>>>

\* C10 witness: the protocol value "a,,b" after an empty value.
C10_Witness ==
    /\ Succeeded
    /\ httpRequest["Sec-WebSocket-Protocol"] = <<<<>>, <<"a", ",", ",", "b">>>>
    /\ Info.protocols = <<<<>>, <<"a">>, <<>>, <<"b">>>>

(***************************************************************************)
(* convert_key                                                             *)
(***************************************************************************)
\* C8: convert_key answers every byte string, every call on the same bytes
\* with the same token: the base64 text, with padding, of the SHA-1 digest
\* of the bytes followed by "258EAFA5-E914-47DA-95CA-C5AB0DC85B11"; for the
\* key "dGhlIHNhbXBsZSBub25jZQ==" it is "s3pPLMBiTxaQ9kYGzzhZRbK+xOo=".
C8_ConvertKey ==
    /\ Len(accepts) < MaxCalls => ENABLED ConvertKey
    /\ \A i \in 1..Len(accepts) :
        /\ accepts[i] = base64_encode(Sha1Digest(keyBytes \o as_bytes(RfcGuid)))
        /\ accepts[i] = accepts[1]
        /\ Len(accepts[i]) = 28
        /\ \A j \in 1..27 : \E n \in 1..64 : Base64Alphabet[n] = accepts[i][j]
        /\ accepts[i][28] = "="
        /\ keyBytes = as_bytes(RfcKey) => accepts[i] = RfcAccept

\* C8 witness: two calls on the bytes of the RFC key.
C8_Witness ==
    /\ keyBytes = as_bytes(RfcKey)
    /\ Len(accepts) = 2
    /\ accepts[1] = RfcAccept
    /\ accepts[2] = RfcAccept

=============================================================================
